---------------------------- MODULE Spec2Model ----------------------------
(***************************************************************************)
(* A model of yat-rs: the configuration loader (src/config.rs) and the     *)
(* ncurses-like Window built on termion (src/tui.rs).                      *)
(*                                                                         *)
(* Two specifications share the variables:                                 *)
(*   Spec        the life of one Window, from construction to drop;        *)
(*   SpecConfig  the loading of ~/.todo/config.toml and its merge onto a   *)
(*               default Config.                                           *)
(*                                                                         *)
(* Option<T> is a sequence of length at most one: <<>> is None and <<v>>   *)
(* is Some(v).  A string slice is the sequence of its bytes.               *)
(***************************************************************************)
EXTENDS Integers, Sequences, FiniteSets, TLC

VARIABLES
    \* ---- src/config.rs ----
    cpc,          \* position of the loader: "file", "checked", "merged"
    edits,        \* number of edits made to the config file so far
    toml,         \* what the config file deserialises to (TomlConfig)
    loaded,       \* outcome of check_for_config: "none", "some", "panic", "-"
    buffer,       \* the ConfigBuffer check_for_config returned
    dflt,         \* the default Config handed to ConfigBuffer::config
    merged,       \* the Config returned by ConfigBuffer::config
    \* ---- src/tui.rs ----
    overflow_checks, \* build profile: arithmetic overflow panics (TRUE) or wraps
    config,       \* Window.config
    alive,        \* the Window has not been dropped yet
    panicked,     \* an operation panicked; the stack is unwinding
    exitPath,     \* how the Window's scope was left: "-", "return", "error", "unwind"
    pc,           \* "idle" between operations, "called" once one has run
    call,         \* the operation that has run, and its arguments
    out,          \* the pieces that operation wrote to Window.stdout, in order
    faults,       \* the pieces of that operation whose write fails
    writes,       \* number of write! (or flush) calls that operation made
    warned,       \* number of warn! lines that operation logged
    size,         \* what termion::terminal_size() answered that operation, if asked
    ret,          \* the value that operation returned, if it returns one
    teardown,     \* per restoration effect, times endwin/drop have emitted it
    ended         \* the application has called endwin() itself

cvars == <<cpc, edits, toml, loaded, buffer, dflt, merged>>
wvars == <<overflow_checks, config, alive, panicked, exitPath, pc, call, out,
           faults, writes, warned, size, ret, teardown, ended>>
vars == <<cpc, edits, toml, loaded, buffer, dflt, merged,
          overflow_checks, config, alive, panicked, exitPath, pc, call, out,
          faults, writes, warned, size, ret, teardown, ended>>

---------------------------------------------------------------------------
(* Bounds of the model. *)

\* Number of sections and fields written into the config file.
MaxEdits == 2
\* Longest colour array in the config file.
MaxVecLen == 4
\* Largest on-screen row passed to the drawing operations.
MaxCoord == 3
\* Largest height or width of a border or rectangle.
MaxDim == 3
\* Largest width passed to wrap_print.
MaxWidth == 5
\* Longest text, in characters.
MaxTextChars == 3
\* Largest colour index passed to colour_on.
MaxColourIdx == 9
\* Largest of the small terminal sizes.
MaxTermSize == 3

---------------------------------------------------------------------------
(* Values. *)

None == <<>>
Some(v) == <<v>>

\* termion::color: the named colours, Reset, and Rgb(r, g, b).
Colour(kind, r, g, b) == [kind |-> kind, r |-> r, g |-> g, b |-> b]
Named(kind) == Colour(kind, 0, 0, 0)
Rgb(r, g, b) == Colour("Rgb", r, g, b)

\* termion::event::Key: Char(c), Up, Down.
Key(kind, c) == [kind |-> kind, c |-> c]
KeyChar(c) == Key("Char", c)

BorderFields == {"hline", "vline", "ulcorner", "urcorner", "llcorner", "lrcorner"}
ColourFields == {"colour0", "colour1", "colour2", "colour3", "colour4",
                 "colour5", "colour6", "colour7", "colourfg", "colourbg"}
KeyFields == {"quit", "back", "save", "add", "edit", "delete", "task_up",
              "task_down", "up", "down", "focus", "complete", "increase",
              "decrease", "sort"}
Fields == BorderFields \cup ColourFields \cup KeyFields

\* Config::default().  The two-letter names stand for the box-drawing glyphs.
ConfigDefault ==
    [hline |-> "-h", vline |-> "|v", ulcorner |-> "ul", urcorner |-> "ur",
     llcorner |-> "ll", lrcorner |-> "lr",
     colour0 |-> Named("Black"), colour1 |-> Named("Red"),
     colour2 |-> Named("Green"), colour3 |-> Named("Yellow"),
     colour4 |-> Named("Blue"), colour5 |-> Named("Magenta"),
     colour6 |-> Named("Cyan"), colour7 |-> Named("White"),
     colourfg |-> Named("Reset"), colourbg |-> Named("Reset"),
     quit |-> KeyChar("q"), back |-> KeyChar("b"), save |-> KeyChar("w"),
     add |-> KeyChar("a"), edit |-> KeyChar("e"), delete |-> KeyChar("d"),
     task_up |-> KeyChar("u"), task_down |-> KeyChar("n"),
     up |-> Key("Up", ""), down |-> Key("Down", ""),
     focus |-> KeyChar("\n"), complete |-> KeyChar(" "),
     increase |-> KeyChar(">"), decrease |-> KeyChar("<"),
     sort |-> KeyChar("r")]

\* struct Borders, struct Colours, struct Keys with every field None.
NoBorders == [f \in BorderFields |-> None]
NoColours == [f \in ColourFields |-> None]
NoKeys == [f \in KeyFields |-> None]

\* struct TomlConfig with every section None.
NoToml == [borders |-> None, colours |-> None, keys |-> None]

\* struct ConfigBuffer with every field None.
NoBuffer == [f \in Fields |-> None]

\* Another fully populated Config, differing from the default in every kind of field.
ConfigAlt ==
    [ConfigDefault EXCEPT !.hline = "|v", !.vline = "-h",
                          !.colour0 = Named("Red"), !.colour1 = Named("Black"),
                          !.colourfg = Named("White"),
                          !.quit = KeyChar("b"), !.back = KeyChar("q"),
                          !.up = Key("Down", ""), !.down = Key("Up", "")]

Defaults == {ConfigDefault, ConfigAlt}

---------------------------------------------------------------------------
(* src/config.rs *)

Sections == {"borders", "colours", "keys"}

SectionFields(s) ==
    IF s = "borders" THEN BorderFields
    ELSE IF s = "colours" THEN ColourFields ELSE KeyFields

EmptySection(s) ==
    IF s = "borders" THEN NoBorders
    ELSE IF s = "colours" THEN NoColours ELSE NoKeys

\* A Vec<u8> of n bytes; its i-th byte (from 0) is 10 + i.
ByteVec(n) == [i \in 1..n |-> 9 + i]

\* The values a field of the file may hold: Option<String>, Option<Vec<u8>>,
\* Option<char>.
FileValues(s) ==
    IF s = "borders" THEN {"="}
    ELSE IF s = "colours" THEN {ByteVec(n) : n \in 0..MaxVecLen}
    ELSE {"x"}

\* |x| color::Rgb(x[0], x[1], x[2]); indexing a Vec out of bounds panics.
IndexPanics(x) == Len(x) < 3
RgbOfVec(x) == Rgb(x[1], x[2], x[3])

\* Option::map over the closures of check_for_config.
MapRgb(o) == IF o = None THEN None ELSE Some(RgbOfVec(o[1]))
MapKey(o) == IF o = None THEN None ELSE Some(KeyChar(o[1]))

\* match toml_config.<section> { Some(s) => (s.f, ...), None => (None, ...) }
SectionOr(o, s) == IF o = None THEN EmptySection(s) ELSE o[1]

\* check_for_config(): `home` is whether home_dir() is Some, `read` whether
\* read_to_string is Ok, `parse` whether toml::from_str is Ok, `t` the parsed
\* TomlConfig.  The result is None, Some(ConfigBuffer), or a panic.
check_for_config(home, read, parse, t) ==
    IF ~home \/ ~read \/ ~parse THEN [kind |-> "none", buf |-> NoBuffer]
    ELSE
      LET b == SectionOr(t.borders, "borders")
          c == SectionOr(t.colours, "colours")
          k == SectionOr(t.keys, "keys")
      IN  IF \E f \in ColourFields : c[f] # None /\ IndexPanics(c[f][1])
          THEN [kind |-> "panic", buf |-> NoBuffer]
          ELSE [kind |-> "some",
                buf |-> [f \in Fields |->
                           IF f \in BorderFields THEN b[f]
                           ELSE IF f \in ColourFields THEN MapRgb(c[f])
                           ELSE MapKey(k[f])]]

\* choose_config! with its arms exchanged at None: the default always wins.
choose_config_default(sv, dv) == dv

\* choose_config!/choose_config_val!: the buffer's value if Some, else the
\* default's.
choose_config(sv, dv) == IF sv # None THEN sv[1] ELSE dv

\* ConfigBuffer::config(&self, default)
ConfigBuffer_config(self, default) ==
    [hline |-> choose_config(self.hline, default.hline),
     vline |-> choose_config(self.vline, default.vline),
     ulcorner |-> choose_config(self.ulcorner, default.ulcorner),
     urcorner |-> choose_config(self.urcorner, default.urcorner),
     llcorner |-> choose_config(self.llcorner, default.llcorner),
     lrcorner |-> choose_config(self.lrcorner, default.lrcorner),
     colour0 |-> choose_config(self.colour0, default.colour0),
     colour1 |-> choose_config(self.colour1, default.colour1),
     colour2 |-> choose_config(self.colour2, default.colour2),
     colour3 |-> choose_config(self.colour3, default.colour3),
     colour4 |-> choose_config(self.colour4, default.colour4),
     colour5 |-> choose_config(self.colour5, default.colour5),
     colour6 |-> choose_config(self.colour6, default.colour6),
     colour7 |-> choose_config(self.colour7, default.colour7),
     colourfg |-> choose_config(self.colourfg, default.colourfg),
     colourbg |-> choose_config(self.colourbg, default.colourbg),
     quit |-> choose_config(self.quit, default.quit),
     back |-> choose_config(self.back, default.back),
     save |-> choose_config(self.save, default.save),
     add |-> choose_config(self.add, default.add),
     edit |-> choose_config(self.edit, default.edit),
     delete |-> choose_config(self.delete, default.delete),
     task_up |-> choose_config(self.task_up, default.task_up),
     task_down |-> choose_config(self.task_down, default.task_down),
     up |-> choose_config(self.up, default.up),
     down |-> choose_config(self.down, default.down),
     focus |-> choose_config(self.focus, default.focus),
     complete |-> choose_config(self.complete, default.complete),
     increase |-> choose_config(self.increase, default.increase),
     decrease |-> choose_config(self.decrease, default.decrease),
     sort |-> choose_config(self.sort, default.sort)]

\* The config file gains an empty section [s].
TomlAddSection(s) ==
    /\ cpc = "file" /\ edits < MaxEdits
    /\ toml[s] = None
    /\ toml' = [toml EXCEPT ![s] = Some(EmptySection(s))]
    /\ edits' = edits + 1
    /\ UNCHANGED <<cpc, loaded, buffer, dflt, merged>>
    /\ UNCHANGED wvars

\* The config file gains the line f = v in section [s].
TomlSetField(s, f, v) ==
    /\ cpc = "file" /\ edits < MaxEdits
    /\ SectionOr(toml[s], s)[f] = None
    /\ toml' = [toml EXCEPT ![s] = Some([SectionOr(toml[s], s) EXCEPT ![f] = Some(v)])]
    /\ edits' = edits + 1
    /\ UNCHANGED <<cpc, loaded, buffer, dflt, merged>>
    /\ UNCHANGED wvars

\* The config file gains every line of section [s] it does not have yet.
TomlFillSection(s, v) ==
    /\ cpc = "file" /\ edits < MaxEdits
    /\ \E f \in SectionFields(s) : SectionOr(toml[s], s)[f] = None
    /\ toml' = [toml EXCEPT ![s] =
                  Some([f \in SectionFields(s) |->
                          IF SectionOr(toml[s], s)[f] = None THEN Some(v)
                          ELSE SectionOr(toml[s], s)[f]])]
    /\ edits' = edits + 1
    /\ UNCHANGED <<cpc, loaded, buffer, dflt, merged>>
    /\ UNCHANGED wvars

\* The program calls check_for_config().
CheckForConfig(home, read, parse) ==
    /\ cpc = "file"
    /\ LET r == check_for_config(home, read, parse, toml)
       IN  loaded' = r.kind /\ buffer' = r.buf
    /\ cpc' = "checked"
    /\ UNCHANGED <<edits, toml, dflt, merged>>
    /\ UNCHANGED wvars

\* The program calls buffer.config(default) on the buffer it was given.
Merge(d) ==
    /\ cpc = "checked" /\ loaded = "some"
    /\ dflt' = d
    /\ merged' = ConfigBuffer_config(buffer, d)
    /\ cpc' = "merged"
    /\ UNCHANGED <<edits, toml, loaded, buffer>>
    /\ UNCHANGED wvars

---------------------------------------------------------------------------
(* src/tui.rs: what is written to stdout *)

\* The number of values of a u16.
U16 == 65536

NoColour == Named("-")

\* One Display argument of a write!: a termion escape sequence or a text.
Piece(k, x, y, s, c) == [k |-> k, x |-> x, y |-> y, s |-> s, c |-> c]
\* cursor::Goto(x, y): native column x, native row y.
Goto(x, y) == Piece("Goto", x, y, <<>>, NoColour)
Str(s) == Piece("Str", 0, 0, s, NoColour)
Fg(c) == Piece("Fg", 0, 0, <<>>, c)
Bg(c) == Piece("Bg", 0, 0, <<>>, c)
ClearAll == Piece("clear::All", 0, 0, <<>>, NoColour)
StyleReset == Piece("style::Reset", 0, 0, <<>>, NoColour)
CursorShow == Piece("cursor::Show", 0, 0, <<>>, NoColour)
CursorHide == Piece("cursor::Hide", 0, 0, <<>>, NoColour)
\* self.stdout.flush(): no bytes of its own; it is in the output when the
\* flush succeeded.
Flushed == Piece("flush", 0, 0, <<>>, NoColour)

\* An operation runs a sequence of write! calls, each a sequence of pieces,
\* and may panic after them.
Ran(calls) == [calls |-> calls, panic |-> FALSE]
PanicAfter(calls) == [calls |-> calls, panic |-> TRUE]

\* The pieces of a sequence of write! calls, as <<call, position>>.
Pieces(calls) ==
    UNION {{<<k, p>> : p \in 1..Len(calls[k])} : k \in 1..Len(calls)}

\* The pieces at or after piece q.
From(calls, q) ==
    {r \in Pieces(calls) : r[1] > q[1] \/ (r[1] = q[1] /\ r[2] >= q[2])}

\* stdout stays broken once it breaks: the writes fail from some piece on.
Breaks(calls) == {{}} \cup {From(calls, q) : q \in Pieces(calls)}

\* write!(self.stdout, ...): the pieces are written in order up to the first
\* whose write fails (S holds the pieces that fail); the rest are not tried.
Written(calls, k, S) ==
    LET bad == {p \in 1..Len(calls[k]) : <<k, p>> \in S}
        n == IF bad = {} THEN Len(calls[k])
             ELSE (CHOOSE p \in bad : \A r \in bad : p <= r) - 1
    IN  SubSeq(calls[k], 1, n)

RECURSIVE WrittenUpTo(_, _, _)
WrittenUpTo(calls, k, S) ==
    IF k = 0 THEN <<>>
    ELSE WrittenUpTo(calls, k - 1, S) \o Written(calls, k, S)

\* Everything the calls write to stdout.
Output(calls, S) == WrittenUpTo(calls, Len(calls), S)

\* .unwrap_or_else(|err| warn!(...)): one line per write! that failed.
Warnings(calls, S) ==
    Cardinality({k \in 1..Len(calls) : Len(Written(calls, k, S)) < Len(calls[k])})

---------------------------------------------------------------------------
(* src/tui.rs: the operations *)

\* `v as u16` of a usize v; v < 0 stands for the usize that v wrapped to.
AsU16(v) == v % U16
\* `1 + x as u16` overflows the u16.
GotoOverflows(y, x) == AsU16(x) = U16 - 1 \/ AsU16(y) = U16 - 1
Add1U16(v) == (1 + AsU16(v)) % U16

\* The arguments of one mvprintw.
At(y, x, text) == [y |-> y, x |-> x, text |-> text]

\* write!(self.stdout, "{}{}", cursor::Goto(1 + x as u16, 1 + y as u16), text)
mvprintw_write(y, x, text) == <<Goto(Add1U16(x), Add1U16(y)), Str(text)>>

\* A sequence of mvprintw calls; with overflow checks the first whose Goto
\* overflows panics before it writes.
mvprintw_all(ps) ==
    LET bad == {i \in 1..Len(ps) : GotoOverflows(ps[i].y, ps[i].x)}
        n == IF overflow_checks /\ bad # {}
             THEN (CHOOSE i \in bad : \A j \in bad : i <= j) - 1
             ELSE Len(ps)
        calls == [i \in 1..n |-> mvprintw_write(ps[i].y, ps[i].x, ps[i].text)]
    IN  IF n < Len(ps) THEN PanicAfter(calls) ELSE Ran(calls)

mvprintw(y, x, text) == mvprintw_all(<<At(y, x, text)>>)

\* write!(self.stdout, "{}", cursor::Goto(1 + x as u16, 1 + y as u16))
mv(y, x) ==
    IF overflow_checks /\ GotoOverflows(y, x) THEN PanicAfter(<<>>)
    ELSE Ran(<<<<Goto(Add1U16(x), Add1U16(y))>>>>)

\* The continuation bytes of the two-byte character of the alphabet.
Continuation == {"e2"}
\* The bytes of a character: "a" is one byte, "e" two ("e1", "e2").
Utf8(c) == IF c = "e" THEN <<"e1", "e2">> ELSE <<c>>

RECURSIVE Bytes(_)
Bytes(chars) ==
    IF chars = <<>> THEN <<>> ELSE Utf8(Head(chars)) \o Bytes(Tail(chars))

\* str::is_char_boundary
is_char_boundary(text, i) ==
    i = 0 \/ i = Len(text) \/ (i < Len(text) /\ text[i + 1] \notin Continuation)

Ellipsis == <<".", ".", ".">>

\* The ellipsis one column late, at x + width - 2.
wrap_print_late_ellipsis(y, x, width, text) ==
    IF width < 3
    THEN IF overflow_checks THEN PanicAfter(<<>>)
         ELSE mvprintw_all(<<At(y, x, text)>>)
    ELSE LET len == Len(text)
             wid == width - 3
             limit == IF len > wid THEN wid ELSE len
         IN  IF ~is_char_boundary(text, limit) THEN PanicAfter(<<>>)
             ELSE mvprintw_all(
                    <<At(y, x, SubSeq(text, 1, limit))>> \o
                    (IF len > wid THEN <<At(y, x + width - 2, Ellipsis)>> ELSE <<>>))

\* Window::wrap_print.  `width - 3` underflows for width < 3: a panic with
\* overflow checks, else a huge wid that no len exceeds.  &text[..limit]
\* panics off a character boundary.
wrap_print(y, x, width, text) ==
    IF width < 3
    THEN IF overflow_checks THEN PanicAfter(<<>>)
         ELSE mvprintw_all(<<At(y, x, text)>>)
    ELSE LET len == Len(text)
             wid == width - 3
             limit == IF len > wid THEN wid ELSE len
         IN  IF ~is_char_boundary(text, limit) THEN PanicAfter(<<>>)
             ELSE mvprintw_all(
                    <<At(y, x, SubSeq(text, 1, limit))>> \o
                    (IF len > wid THEN <<At(y, x + width - 3, Ellipsis)>> ELSE <<>>))

\* The range a..=b in place of a..b.
RangeLenInclusive(a, b) == IF a < 0 \/ a > b THEN 0 ELSE b - a + 1

\* The number of values of the usize range a..b; a < 0 stands for a start
\* that wrapped to the top of the usize range.
RangeLen(a, b) == IF a < 0 \/ a >= b THEN 0 ELSE b - a

\* Window::border.  `y + 1 - height` underflows for height > y + 1.
border(lower_left, dimensions) ==
    LET y == lower_left[1]
        x == lower_left[2]
        height == dimensions[1]
        width == dimensions[2]
        top == y + 1 - height
        nj == RangeLen(y + 2 - height, y)
        ni == RangeLen(x + 1, x + width - 1)
        corners == <<At(top, x, <<config.ulcorner>>),
                     At(y, x, <<config.llcorner>>),
                     At(top, x + width - 1, <<config.urcorner>>),
                     At(y, x + width - 1, <<config.lrcorner>>)>>
        sides == [k \in 1..(2 * nj) |->
                    LET j == (y + 2 - height) + ((k - 1) \div 2)
                    IN  IF k % 2 = 1 THEN At(j, x, <<config.vline>>)
                        ELSE At(j, x + width - 1, <<config.vline>>)]
        lines == [k \in 1..(2 * ni) |->
                    LET i == (x + 1) + ((k - 1) \div 2)
                    IN  IF k % 2 = 1 THEN At(y, i, <<config.hline>>)
                        ELSE At(top, i, <<config.hline>>)]
    IN  IF overflow_checks /\ height > y + 1 THEN PanicAfter(<<>>)
        ELSE mvprintw_all(corners \o sides \o lines)

\* Window::rectangle.  `y - height` underflows for height > y.
rectangle(ch, lower_left, dimensions) ==
    LET y == lower_left[1]
        x == lower_left[2]
        height == dimensions[1]
        width == dimensions[2]
        nj == RangeLen(y - height + 1, y)
        ni == RangeLen(x, x + width - 1)
        cells == [k \in 1..(2 * nj * ni) |->
                    LET j == (y - height + 1) + (((k - 1) \div 2) \div ni)
                        i == x + (((k - 1) \div 2) % ni)
                    IN  IF k % 2 = 1 THEN At(j, i, ch)
                        ELSE At(j, i + width - 1, ch)]
    IN  IF overflow_checks /\ height > y THEN PanicAfter(<<>>)
        ELSE mvprintw_all(cells)

\* The match arms of colour_on: the colour an index selects, if any.
colour_of(idx, deflt) ==
    IF idx = 0 THEN Some(config.colour0)
    ELSE IF idx = 1 THEN Some(config.colour1)
    ELSE IF idx = 2 THEN Some(config.colour2)
    ELSE IF idx = 3 THEN Some(config.colour3)
    ELSE IF idx = 4 THEN Some(config.colour4)
    ELSE IF idx = 5 THEN Some(config.colour5)
    ELSE IF idx = 6 THEN Some(config.colour6)
    ELSE IF idx = 7 THEN Some(config.colour7)
    ELSE IF idx = 8 THEN Some(deflt)
    ELSE None

\* colour_on that returns only on an invalid foreground and writes the
\* foreground alone on an invalid background.
colour_on_half(fg, bg) ==
    LET fgcol == colour_of(fg, config.colourfg)
        bgcol == colour_of(bg, config.colourbg)
    IN  IF fgcol = None THEN Ran(<<>>)
        ELSE IF bgcol = None THEN Ran(<<<<Fg(fgcol[1])>>>>)
        ELSE Ran(<<<<Fg(fgcol[1]), Bg(bgcol[1])>>>>)

\* Window::colour_on
colour_on(fg, bg) ==
    LET fgcol == colour_of(fg, config.colourfg)
        bgcol == colour_of(bg, config.colourbg)
    IN  IF fgcol = None THEN Ran(<<>>)
        ELSE IF bgcol = None THEN Ran(<<>>)
        ELSE Ran(<<<<Fg(fgcol[1]), Bg(bgcol[1])>>>>)

\* Window::colour_off
colour_off == Ran(<<<<Fg(config.colourfg), Bg(config.colourbg)>>>>)

\* Window::colour_reset
colour_reset_write == <<Fg(Named("Reset")), Bg(Named("Reset"))>>
colour_reset == Ran(<<colour_reset_write>>)

\* Window::refresh
refresh == Ran(<<<<Flushed>>>>)

\* Window::getch: reads stdin, writes nothing.
getch == Ran(<<>>)

\* termion::terminal_size(): Ok((columns, rows)), or an Err when the ioctl
\* fails.
terminal_size(ok, cols, rows) == IF ok THEN Some(<<cols, rows>>) ELSE None

\* The pair returned as it was bound, without the swap.
get_max_yx_unswapped(answer) ==
    LET yx == IF answer # None THEN answer[1] ELSE <<0, 0>>
    IN  [value |-> yx, warn |-> IF answer = None THEN 1 ELSE 0]

\* Window::get_max_yx: `let (y, x) = terminal_size().unwrap_or_else(..)`
\* binds y to the first component and x to the second, warns and takes (0, 0)
\* on an Err, and returns (x as usize, y as usize).
get_max_yx(answer) ==
    LET yx == IF answer # None THEN answer[1] ELSE <<0, 0>>
        y == yx[1]
        x == yx[2]
    IN  [value |-> <<x, y>>, warn |-> IF answer = None THEN 1 ELSE 0]

\* Window::hide_cursor, show_cursor, clear
hide_cursor == Ran(<<<<CursorHide>>>>)
show_cursor_write == <<CursorShow>>
show_cursor == Ran(<<show_cursor_write>>)
clear == Ran(<<<<ClearAll>>>>)

\* Window::endwin: colour_reset(), then one write! of three pieces.
endwin_writes == <<colour_reset_write, <<ClearAll, StyleReset, Goto(1, 1)>>>>
endwin == Ran(endwin_writes)

\* Drop for Window: endwin(), then show_cursor().
drop_writes == endwin_writes \o <<show_cursor_write>>

---------------------------------------------------------------------------
(* The inputs. *)

Alphabet == {"a", "e"}
Texts == UNION {{Bytes(cs) : cs \in [1..n -> Alphabet]} : n \in 0..MaxTextChars}
ShortTexts == {<<>>, <<"a">>}
Rows == 0..MaxCoord
Cols == 0..1
TextRows == 0..1
Dims == 1..MaxDim
Widths == 0..MaxWidth
\* Coordinates on both sides of the largest u16.
EdgeCoords == {0, 1, U16 - 2, U16 - 1, U16}
ColourIdx == 0..MaxColourIdx
\* Terminal sizes: small ones and the largest a u16 holds.
TermSizes == (1..MaxTermSize) \cup {U16 - 1}
FillGlyphs == {<<"#">>}

\* A Config with a custom glyph and custom colours, as ConfigBuffer::config
\* builds it.
ConfigCustom ==
    ConfigBuffer_config(
        [NoBuffer EXCEPT !.hline = Some("="),
                         !.colour0 = Some(Rgb(10, 11, 12)),
                         !.colourfg = Some(Rgb(1, 2, 3)),
                         !.colourbg = Some(Rgb(4, 5, 6))],
        ConfigDefault)

---------------------------------------------------------------------------
(* The state machine of one Window. *)

Effects == {"colour", "clear", "style", "origin", "show"}

Has(o, piece) == \E i \in 1..Len(o) : o[i] = piece

\* The restoration effects among the pieces o.
Emits(o, e) ==
    IF e = "colour" THEN Has(o, Fg(Named("Reset"))) /\ Has(o, Bg(Named("Reset")))
    ELSE IF e = "clear" THEN Has(o, ClearAll)
    ELSE IF e = "style" THEN Has(o, StyleReset)
    ELSE IF e = "origin" THEN Has(o, Goto(1, 1))
    ELSE Has(o, CursorShow)

Restored(o) == [e \in Effects |-> teardown[e] + (IF Emits(o, e) THEN 1 ELSE 0)]

Call(op, y, x, h, w, text) ==
    [op |-> op, y |-> y, x |-> x, h |-> h, w |-> w, text |-> text]
NoCall == Call("-", 0, 0, 0, 0, <<>>)

InitConfig ==
    /\ cpc = "file" /\ edits = 0 /\ toml = NoToml /\ loaded = "-"
    /\ buffer = NoBuffer /\ dflt = ConfigDefault /\ merged = ConfigDefault

\* Window::new has returned Ok(Window).
InitWindow ==
    /\ alive = TRUE /\ panicked = FALSE /\ exitPath = "-" /\ pc = "idle"
    /\ call = NoCall /\ out = <<>> /\ faults = {} /\ writes = 0 /\ warned = 0
    /\ size = None /\ ret = None
    /\ teardown = [e \in Effects |-> 0] /\ ended = FALSE

Init ==
    /\ InitConfig /\ InitWindow
    /\ overflow_checks \in BOOLEAN
    /\ config \in {ConfigDefault, ConfigCustom}

\* The application may call an operation of the Window.
Ready == alive /\ pc = "idle" /\ ~panicked

\* An operation runs to its end: c is the call, r what it runs, S the pieces
\* whose write fails.
Operation(c, r, S) ==
    /\ call' = c
    /\ out' = Output(r.calls, S)
    /\ faults' = S
    /\ writes' = Len(r.calls)
    /\ warned' = Warnings(r.calls, S)
    /\ size' = None /\ ret' = None
    /\ panicked' = r.panic
    /\ pc' = "called"
    /\ UNCHANGED <<overflow_checks, config, alive, exitPath>>
    /\ UNCHANGED cvars

Plain(c, r) ==
    \E ran \in {r} : \E S \in Breaks(ran.calls) :
        Operation(c, ran, S) /\ UNCHANGED <<teardown, ended>>

HideCursor == Ready /\ Plain(Call("hide_cursor", 0, 0, 0, 0, <<>>), hide_cursor)
ShowCursor == Ready /\ Plain(Call("show_cursor", 0, 0, 0, 0, <<>>), show_cursor)
Clear == Ready /\ Plain(Call("clear", 0, 0, 0, 0, <<>>), clear)
ColourOff == Ready /\ Plain(Call("colour_off", 0, 0, 0, 0, <<>>), colour_off)
ColourReset == Ready /\ Plain(Call("colour_reset", 0, 0, 0, 0, <<>>), colour_reset)

Refresh == Ready /\ Plain(Call("refresh", 0, 0, 0, 0, <<>>), refresh)

Getch == Ready /\ Plain(Call("getch", 0, 0, 0, 0, <<>>), getch)

\* get_max_yx writes nothing; the terminal answers any size, or an error.
GetMaxYx ==
    /\ Ready
    /\ \E ok \in BOOLEAN, cols \in TermSizes, rows \in TermSizes :
          \E answer \in {terminal_size(ok, cols, rows)} :
             \E r \in {get_max_yx(answer)} :
                /\ size' = answer
                /\ ret' = Some(r.value)
                /\ warned' = r.warn
    /\ call' = Call("get_max_yx", 0, 0, 0, 0, <<>>)
    /\ out' = <<>> /\ faults' = {} /\ writes' = 0
    /\ pc' = "called"
    /\ UNCHANGED <<overflow_checks, config, alive, panicked, exitPath,
                   teardown, ended>>
    /\ UNCHANGED cvars

Mv ==
    /\ Ready
    /\ \E y \in EdgeCoords, x \in EdgeCoords :
          Plain(Call("mv", y, x, 0, 0, <<>>), mv(y, x))

\* The call records the indices as y (fg) and x (bg).
ColourOn ==
    /\ Ready
    /\ \E fg \in ColourIdx, bg \in ColourIdx :
          Plain(Call("colour_on", fg, bg, 0, 0, <<>>), colour_on(fg, bg))

MvPrintw ==
    /\ Ready
    /\ \E y \in EdgeCoords, x \in EdgeCoords, text \in ShortTexts :
          Plain(Call("mvprintw", y, x, 0, 0, text), mvprintw(y, x, text))

WrapPrint ==
    /\ Ready
    /\ \E y \in TextRows, x \in Cols, width \in Widths, text \in Texts :
          Plain(Call("wrap_print", y, x, 0, width, text), wrap_print(y, x, width, text))

Border ==
    /\ Ready
    /\ \E y \in Rows, x \in Cols, h \in Dims, w \in Dims :
          Plain(Call("border", y, x, h, w, <<>>), border(<<y, x>>, <<h, w>>))

Rectangle ==
    /\ Ready
    /\ \E ch \in FillGlyphs, y \in Rows, x \in Cols, h \in Dims, w \in Dims :
          Plain(Call("rectangle", y, x, h, w, ch), rectangle(ch, <<y, x>>, <<h, w>>))

\* The application calls endwin() itself.
Endwin ==
    /\ Ready /\ ~ended
    /\ \E S \in Breaks(endwin.calls) :
          /\ Operation(Call("endwin", 0, 0, 0, 0, <<>>), endwin, S)
          /\ teardown' = Restored(Output(endwin.calls, S))
    /\ ended' = TRUE

\* The operation returns to the application.
Return ==
    /\ alive /\ pc = "called" /\ ~panicked
    /\ pc' = "idle"
    /\ call' = NoCall /\ out' = <<>> /\ faults' = {} /\ writes' = 0 /\ warned' = 0
    /\ size' = None /\ ret' = None
    /\ UNCHANGED <<overflow_checks, config, alive, panicked, exitPath, teardown, ended>>
    /\ UNCHANGED cvars

\* The Window goes out of scope and Drop::drop runs: on the return of its
\* scope, on an early return of an error, or as a panic unwinds the stack.
\* Every write of the teardown may fail or not, whatever the others do.
Drop ==
    /\ alive /\ (pc = "idle" \/ panicked)
    /\ \E path \in IF panicked THEN {"unwind"} ELSE {"return", "error"},
          S \in SUBSET Pieces(drop_writes) :
          /\ exitPath' = path
          /\ call' = Call("drop", 0, 0, 0, 0, <<>>)
          /\ out' = Output(drop_writes, S)
          /\ faults' = S
          /\ writes' = Len(drop_writes)
          /\ warned' = Warnings(drop_writes, S)
          /\ teardown' = Restored(Output(drop_writes, S))
    /\ alive' = FALSE
    /\ pc' = "called"
    /\ size' = None /\ ret' = None
    /\ UNCHANGED <<overflow_checks, config, panicked, ended>>
    /\ UNCHANGED cvars

Next ==
    \/ HideCursor \/ ShowCursor \/ Clear \/ ColourOff \/ ColourReset
    \/ Refresh \/ Getch \/ GetMaxYx \/ Mv \/ ColourOn \/ MvPrintw \/ WrapPrint
    \/ Border \/ Rectangle \/ Endwin \/ Return \/ Drop

Spec == Init /\ [][Next]_vars

\* The configuration is loaded before the Window exists.
NextConfig ==
    \/ \E s \in Sections : TomlAddSection(s)
    \/ \E s \in Sections : \E f \in SectionFields(s), v \in FileValues(s) :
          TomlSetField(s, f, v)
    \/ \E s \in Sections : \E v \in FileValues(s) : TomlFillSection(s, v)
    \/ \E home \in BOOLEAN, read \in BOOLEAN, parse \in BOOLEAN :
          CheckForConfig(home, read, parse)
    \/ \E d \in Defaults : Merge(d)

\* No Window exists yet; its variables keep one value.
InitLoader ==
    /\ InitConfig /\ InitWindow
    /\ overflow_checks = TRUE /\ config = ConfigDefault

SpecConfig == InitLoader /\ [][NextConfig]_vars

---------------------------------------------------------------------------
(* The properties. *)

\* What an operation printed: out as the sequence of its mvprintw writes,
\* each the zero-indexed cell its Goto addresses and the text written there.
IsPrints(o) ==
    /\ Len(o) % 2 = 0
    /\ \A i \in 1..(Len(o) \div 2) : o[2 * i - 1].k = "Goto" /\ o[2 * i].k = "Str"
NPrints(o) == Len(o) \div 2
CellOf(o, i) == <<o[2 * i - 1].y - 1, o[2 * i - 1].x - 1>>
TextOf(o, i) == o[2 * i].s

\* The pieces of drop's writes that carry each restoration effect.
StepPieces(e) ==
    IF e = "colour" THEN {<<1, 1>>, <<1, 2>>}
    ELSE IF e = "clear" THEN {<<2, 1>>}
    ELSE IF e = "style" THEN {<<2, 2>>}
    ELSE IF e = "origin" THEN {<<2, 3>>}
    ELSE {<<3, 1>>}

\* C1: once the Window has been dropped, teardown has emitted each of the
\* five restoration effects exactly once, whatever the application called
\* before (endwin included) and whatever the exit path.  Stated for a drop
\* none of whose writes fails.
C1_TeardownExactlyOnce ==
    (~alive /\ faults = {}) => \A e \in Effects : teardown[e] = 1

\* C2: in the teardown run by drop, every step whose own write does not fail
\* is emitted, whichever other steps fail, and drop itself never panics.
C2_TeardownStepsIndependent ==
    (~alive /\ call.op = "drop") =>
        /\ \A e \in Effects : (StepPieces(e) \cap faults = {}) => Emits(out, e)
        /\ (panicked => exitPath = "unwind")

\* C3: wrap_print with width >= 3 and a text of length <= width writes the
\* whole text at (row, col) and no ellipsis.
C3_WrapPrintShortUnchanged ==
    (call.op = "wrap_print" /\ call.w >= 3 /\ Len(call.text) <= call.w /\ faults = {}) =>
        /\ ~panicked
        /\ out = <<Goto(call.x + 1, call.y + 1), Str(call.text)>>

\* C4: wrap_print with width >= 3 and a text of length > width writes the
\* first width - 3 characters at (row, col), then "..." at
\* (row, col + width - 3), and nothing else.
C4_WrapPrintTruncates ==
    (call.op = "wrap_print" /\ call.w >= 3 /\ Len(call.text) > call.w /\ faults = {}) =>
        /\ ~panicked
        /\ out = <<Goto(call.x + 1, call.y + 1),
                   Str(SubSeq(call.text, 1, call.w - 3)),
                   Goto(call.x + call.w - 3 + 1, call.y + 1),
                   Str(Ellipsis)>>

\* The palette of a Config, by index 0..7.
PaletteOf(cfg) ==
    <<cfg.colour0, cfg.colour1, cfg.colour2, cfg.colour3,
      cfg.colour4, cfg.colour5, cfg.colour6, cfg.colour7>>

\* C5: colour_on(fg, bg) with both indices in 0..8 makes one write, the
\* foreground selection of fg then the background selection of bg (0..7 the
\* palette colour, 8 the configured default foreground, resp. background);
\* with either index outside 0..8 it writes nothing, not even the valid half;
\* it reports no error in either case.
C5_ColourOn ==
    (call.op = "colour_on") =>
        LET fg == call.y
            bg == call.x
        IN  /\ ~panicked
            /\ (fg \in 0..8 /\ bg \in 0..8) =>
                  /\ writes = 1
                  /\ (faults = {}) =>
                        /\ warned = 0
                        /\ out = <<Fg(IF fg = 8 THEN config.colourfg
                                      ELSE PaletteOf(config)[fg + 1]),
                                   Bg(IF bg = 8 THEN config.colourbg
                                      ELSE PaletteOf(config)[bg + 1])>>
            /\ (fg \notin 0..8 \/ bg \notin 0..8) =>
                  (writes = 0 /\ out = <<>> /\ warned = 0)

C5_Witness ==
    /\ call.op = "colour_on" /\ faults = {} /\ config = ConfigCustom
    /\ call.y = 8 /\ call.x = 8 /\ Len(out) = 2

\* The perimeter of the box with lower-left corner (y, x), height h, width w.
Perimeter(y, x, h, w) ==
    {c \in ((y - h + 1)..y) \X (x..(x + w - 1)) :
        c[1] \in {y - h + 1, y} \/ c[2] \in {x, x + w - 1}}

\* The glyph the border has at a perimeter cell.
BorderGlyph(c, y, x, h, w) ==
    IF c[1] = y - h + 1
    THEN (IF c[2] = x THEN config.ulcorner
          ELSE IF c[2] = x + w - 1 THEN config.urcorner ELSE config.hline)
    ELSE IF c[1] = y
    THEN (IF c[2] = x THEN config.llcorner
          ELSE IF c[2] = x + w - 1 THEN config.lrcorner ELSE config.hline)
    ELSE config.vline

\* C6: border((y, x), (h, w)) with 2 <= h <= y + 1 and w >= 2 writes every
\* cell of the perimeter exactly once, no cell off it, the four corner glyphs
\* at the corners, the vertical glyph down the sides and the horizontal glyph
\* along the top and bottom rows.
C6_Border ==
    (call.op = "border" /\ 2 <= call.h /\ call.h <= call.y + 1 /\ call.w >= 2
       /\ faults = {}) =>
        LET per == Perimeter(call.y, call.x, call.h, call.w)
        IN  /\ ~panicked
            /\ IsPrints(out)
            /\ NPrints(out) = Cardinality(per)
            /\ {CellOf(out, i) : i \in 1..NPrints(out)} = per
            /\ \A i \in 1..NPrints(out) :
                  TextOf(out, i) =
                      <<BorderGlyph(CellOf(out, i), call.y, call.x, call.h, call.w)>>

C6_Witness ==
    /\ call.op = "border" /\ call.y = 2 /\ call.x = 1 /\ call.h = 3 /\ call.w = 3
    /\ faults = {} /\ config = ConfigCustom /\ NPrints(out) = 8

\* C7: rectangle(ch, (y, x), (h, w)) with 3 <= h <= y + 1 and w >= 3 writes
\* ch to every interior cell (rows y-h+2 .. y-1, columns x+1 .. x+w-2) and to
\* no cell outside the region of the border (rows y-h+1 .. y, columns
\* x .. x+w-1).
C7_RectangleFillsInterior ==
    (call.op = "rectangle" /\ 3 <= call.h /\ call.h <= call.y + 1 /\ call.w >= 3
       /\ faults = {}) =>
        LET cells == {CellOf(out, i) : i \in 1..NPrints(out)}
            inner == ((call.y - call.h + 2)..(call.y - 1))
                        \X ((call.x + 1)..(call.x + call.w - 2))
            region == ((call.y - call.h + 1)..call.y)
                        \X (call.x..(call.x + call.w - 1))
        IN  /\ ~panicked
            /\ IsPrints(out)
            /\ \A i \in 1..NPrints(out) : TextOf(out, i) = call.text
            /\ inner \subseteq cells
            /\ cells \subseteq region

\* C8: mv(row, col) and mvprintw(row, col, text) address native row row + 1
\* and native column col + 1, for every row and col.
C8_NativeCoordinates ==
    (call.op \in {"mv", "mvprintw"} /\ faults = {}) =>
        /\ ~panicked
        /\ Len(out) >= 1
        /\ out[1] = Goto(call.x + 1, call.y + 1)

\* C9: the Config that ConfigBuffer::config returns has every field, each
\* holding the buffer's value of that field if the buffer has one and the
\* default's value of that field otherwise.
C9_MergeLaw ==
    (cpc = "merged") =>
        /\ DOMAIN merged = Fields
        /\ \A f \in Fields :
              merged[f] = (IF buffer[f] # None THEN buffer[f][1] ELSE dflt[f])

C9_Witness ==
    /\ cpc = "merged" /\ dflt = ConfigAlt
    /\ buffer.vline # None /\ buffer.colour3 # None /\ buffer.hline = None
    /\ merged.vline = "=" /\ merged.hline = "|v"

\* The field f of the parsed file is present.
InFile(f) ==
    \E s \in Sections :
        f \in SectionFields(s) /\ toml[s] # None /\ toml[s][1][f] # None

\* C10: check_for_config never aborts the program, whatever the file holds
\* (colour arrays of any length included), and every field not taken from the
\* file is at its default after the merge.
C10_LoadNeverFatal ==
    (cpc # "file") =>
        /\ loaded # "panic"
        /\ (cpc = "merged" => \A f \in Fields : ~InFile(f) => merged[f] = dflt[f])

\* C11 as stated: get_max_yx returns (columns, rows), the terminal's size in
\* that order, when the size query succeeds, and (0, 0) without panicking
\* when it fails.
C11_ColumnsThenRows ==
    (call.op = "get_max_yx") =>
        /\ ~panicked
        /\ (size # None) => ret = Some(<<size[1][1], size[1][2]>>)
        /\ (size = None) => ret = Some(<<0, 0>>)

\* C11: get_max_yx returns (rows, columns), the terminal's size with the
\* number of rows first and the number of columns second, and logs nothing
\* when the size query succeeds; when it fails it returns (0, 0), logs one
\* warning and does not panic.  It writes nothing in either case.
C11_RowsThenColumns ==
    (call.op = "get_max_yx") =>
        /\ ~panicked
        /\ out = <<>> /\ writes = 0
        /\ (size # None) => (ret = Some(<<size[1][2], size[1][1]>>) /\ warned = 0)
        /\ (size = None) => (ret = Some(<<0, 0>>) /\ warned = 1)

\* A terminal with more columns than rows answered the query.
C11_Witness ==
    /\ call.op = "get_max_yx" /\ size # None
    /\ size[1][1] > size[1][2]
    /\ ret = Some(<<size[1][2], size[1][1]>>)

\* The characters of a text: its bytes that start a character.
CharsOf(text) == {i \in 1..Len(text) : text[i] \notin Continuation}
NChars(text) == Cardinality(CharsOf(text))

\* The characters an operation emitted, as <<piece, character>>: the j-th
\* character of the text that is the k-th piece of o.
Emitted(o) ==
    UNION {{<<k, j>> : j \in 1..NChars(o[k].s)} :
              k \in {i \in 1..Len(o) : o[i].k = "Str"}}

\* The zero-indexed cell an emitted character lands on: the text starts
\* where the Goto written before it put the cursor, one column a character.
LandsOn(o, e) == <<o[e[1] - 1].y - 1, o[e[1] - 1].x - 1 + e[2] - 1>>

\* C12: for width >= 3 and a text of any length, every character that
\* wrap_print(row, col, width, text) emits (prefix and ellipsis together)
\* lands on the given row in columns col .. col + width - 1, no column is
\* written twice, and nothing lands on column col + width or beyond;
\* whether or not a write fails or the call panics.
C12_WrapPrintClipped ==
    (call.op = "wrap_print" /\ call.w >= 3) =>
        /\ \A k \in 1..Len(out) : out[k].k = "Str" => (k > 1 /\ out[k - 1].k = "Goto")
        /\ \A e \in Emitted(out) :
              /\ LandsOn(out, e)[1] = call.y
              /\ LandsOn(out, e)[2] \in call.x..(call.x + call.w - 1)
        /\ \A e1, e2 \in Emitted(out) :
              LandsOn(out, e1) = LandsOn(out, e2) => e1 = e2

\* A truncated text with a two-byte character in its prefix, and the
\* ellipsis, were both written.
C12_Witness ==
    /\ call.op = "wrap_print" /\ call.w >= 3 /\ ~panicked /\ faults = {}
    /\ IsPrints(out) /\ NPrints(out) = 2
    /\ Len(TextOf(out, 1)) > NChars(TextOf(out, 1))
    /\ TextOf(out, 2) = Ellipsis
    /\ Cardinality(Emitted(out)) = NChars(TextOf(out, 1)) + 3

=============================================================================
